---- MODULE Spec2Model ----
(***************************************************************************)
(* Command handlers of the Nagios plugin (server/handlers.go): the         *)
(* key-value settings written by set-logs-limit, set-logs-start-time and   *)
(* set-report-frequency, the log query get-log builds from them, and the   *)
(* report subscription started by                                          *)
(* `subscribe report` and cancelled by `unsubscribe report`.               *)
(*                                                                         *)
(* Strings the handlers parse or encode are sequences of one-character     *)
(* strings, so that strconv and encoding/json are modelled by what they    *)
(* do to the characters.  Every message a handler returns is a sequence of *)
(* string pieces (fmt.Sprintf joins the pieces).                           *)
(***************************************************************************)
EXTENDS Integers, Sequences, FiniteSets, TLC

VARIABLES
    kv,               \* the plugin key-value store: key -> bytes (<<>> = no value)
    subscriptionStop, \* Plugin.subscriptionStop: 0 = nil, else a channel
    made,             \* number of stop channels made so far
    buf,              \* per stop channel: number of buffered values (capacity 1)
    task,             \* per stop channel: state of the goroutine started with it
    sent,             \* per stop channel: number of completed sends (history)
    inv,              \* per command invocation in flight: position and locals
    out,              \* the response most recently returned to the host
    lookup            \* the locals of getLogs when that response is get-log's

vars == <<kv, subscriptionStop, made, buf, task, sent, inv, out, lookup>>

----------------------------------------------------------------------------
(* Bounds *)

\* stop channels (and so `subscribe report` commands) in one behaviour
MaxSubscribes == 2
\* command invocations that may be in flight at once under SpecConc
NumProcs == 2

----------------------------------------------------------------------------
(* Keys and messages: the const block *)

logsLimitKey == "logs-limit"
logsStartTimeKey == "logs-start-time"
reportFrequencyKey == "report-frequency"
reportChannelKey == "report-channel"
changesChannelKey == "changes-channel"

Keys == {logsLimitKey, logsStartTimeKey, reportFrequencyKey,
         reportChannelKey, changesChannelKey}

settingLogsLimitUnsuccessful == <<"Setting logs limit unsuccessful.">>
settingLogsStartTimeUnsuccessful == <<"Setting logs start time unsuccessful.">>
settingReportFrequencyUnsuccessful == <<"Setting report frequency unsuccessful.">>
settingReportChannelUnsuccessful ==
    <<"Setting system monitoring report channel unsuccessful.">>
settingChangesChannelUnsuccessful ==
    <<"Setting configuration changes channel unsuccessful.">>
unsubscribingUnsuccessful == <<"Unsubscribing unsuccessful.">>
gettingLogsUnsuccessful == <<"Getting logs unsuccessful">>
resultTypeTextSuccess == "Success"

\* fmt.Sprintf("%s: %s", gettingLogsUnsuccessful, message)
gettingLogsUnsuccessfulMessage(message) ==
    gettingLogsUnsuccessful \o <<": ", message>>

\* fmt.Sprintf("Unknown parameter (%s).", parameter)
unknownParameterMessage(parameter) ==
    <<"Unknown parameter (">> \o parameter \o <<").">>

----------------------------------------------------------------------------
(* strconv and encoding/json on integers *)

Digits == <<"0", "1", "2", "3", "4", "5", "6", "7", "8", "9">>

IsDigit(c) == \E d \in 1..10 : Digits[d] = c

DigitVal(c) == (CHOOSE d \in 1..10 : Digits[d] = c) - 1

AllDigits(s) == \A i \in 1..Len(s) : IsDigit(s[i])

RECURSIVE StripZeros(_)
StripZeros(s) ==
    IF Len(s) > 1 /\ s[1] = "0" THEN StripZeros(Tail(s)) ELSE s

RECURSIVE DigitsToNat(_)
DigitsToNat(s) ==
    IF s = <<>> THEN 0
    ELSE 10 * DigitsToNat(SubSeq(s, 1, Len(s) - 1)) + DigitVal(s[Len(s)])

RECURSIVE NatToDigits(_)
NatToDigits(n) ==
    IF n < 10 THEN <<Digits[n + 1]>>
    ELSE NatToDigits(n \div 10) \o <<Digits[(n % 10) + 1]>>

\* the decimal digits of 2^63 - 1 and of 2^63
MaxInt64Digits == <<"9","2","2","3","3","7","2","0","3","6","8","5","4","7","7","5","8","0","7">>
MinInt64Digits == <<"9","2","2","3","3","7","2","0","3","6","8","5","4","7","7","5","8","0","8">>

\* a, b: digit strings of the same length without leading zeros; a > b
RECURSIVE DigitsGreater(_, _)
DigitsGreater(a, b) ==
    IF a = <<>> THEN FALSE
    ELSE IF a[1] = b[1] THEN DigitsGreater(Tail(a), Tail(b))
    ELSE DigitVal(a[1]) > DigitVal(b[1])

\* whether the magnitude written by digit string d lies outside int64
OutOfRange(d, neg) ==
    LET m == StripZeros(d)
        lim == IF neg THEN MinInt64Digits ELSE MaxInt64Digits
    IN  \/ Len(m) > Len(lim)
        \/ Len(m) = Len(lim) /\ DigitsGreater(m, lim)

\* strconv.Atoi(s) on a 64-bit build: an optional sign, then at least one
\* decimal digit, within int64.
Atoi(s) ==
    LET signed == s # <<>> /\ s[1] \in {"+", "-"}
        neg == s # <<>> /\ s[1] = "-"
        d == IF signed THEN Tail(s) ELSE s
    IN  IF d = <<>> \/ ~AllDigits(d) THEN [ok |-> FALSE, val |-> 0]
        ELSE IF OutOfRange(d, neg) THEN [ok |-> FALSE, val |-> 0]
        ELSE [ok |-> TRUE,
              val |-> IF neg THEN 0 - DigitsToNat(d) ELSE DigitsToNat(d)]

\* json.Marshal of an integer: its decimal digits, "-" first when negative
MarshalInt(i) ==
    IF i < 0 THEN <<"-">> \o NatToDigits(0 - i) ELSE NatToDigits(i)

\* json.Unmarshal of bytes into an integer variable: the bytes must be a JSON
\* number without fraction or exponent ("-"? then "0" or a digit string not
\* starting with "0") that fits; nil bytes are "unexpected end of JSON input".
UnmarshalInt(b) ==
    LET neg == b # <<>> /\ b[1] = "-"
        d == IF neg THEN Tail(b) ELSE b
    IN  IF d = <<>> \/ ~AllDigits(d) THEN [ok |-> FALSE, val |-> 0]
        ELSE IF Len(d) > 1 /\ d[1] = "0" THEN [ok |-> FALSE, val |-> 0]
        ELSE IF OutOfRange(d, neg) THEN [ok |-> FALSE, val |-> 0]
        ELSE [ok |-> TRUE,
              val |-> IF neg THEN 0 - DigitsToNat(d) ELSE DigitsToNat(d)]

----------------------------------------------------------------------------
(* int64 arithmetic.  An int64 is its eight bytes, least significant first, *)
(* in two's complement; every operation wraps as the machine's does.       *)

RECURSIVE Zeros(_)
Zeros(n) == IF n = 0 THEN <<>> ELSE <<0>> \o Zeros(n - 1)

I64Zero == Zeros(8)

\* x * m + c for a small m >= 0 and carry c, cut to the width of x
RECURSIVE MulAdd(_, _, _)
MulAdd(x, m, c) ==
    IF x = <<>> THEN <<>>
    ELSE LET v == x[1] * m + c
         IN  <<v % 256>> \o MulAdd(Tail(x), m, v \div 256)

RECURSIVE AddCarry(_, _, _)
AddCarry(x, y, c) ==
    IF x = <<>> THEN <<>>
    ELSE LET v == x[1] + y[1] + c
         IN  <<v % 256>> \o AddCarry(Tail(x), Tail(y), v \div 256)

I64Add(x, y) == AddCarry(x, y, 0)

I64Neg(x) == MulAdd([i \in 1..Len(x) |-> 255 - x[i]], 1, 1)

I64Sub(x, y) == I64Add(x, I64Neg(y))

I64IsNeg(x) == x[Len(x)] >= 128

\* x * y, cut to the width of x
RECURSIVE I64Mul(_, _)
I64Mul(x, y) ==
    IF y = <<>> THEN Zeros(Len(x))
    ELSE I64Add(MulAdd(x, y[1], 0),
                SubSeq(<<0>> \o I64Mul(x, Tail(y)), 1, Len(x)))

\* the int64 written by the decimal digits d (of a magnitude within int64)
RECURSIVE I64FromDigits(_)
I64FromDigits(d) ==
    IF d = <<>> THEN I64Zero
    ELSE MulAdd(I64FromDigits(SubSeq(d, 1, Len(d) - 1)), 10, DigitVal(d[Len(d)]))

\* x \div m and x % m for x >= 0 and a small m > 0; hi: the bytes of x, most
\* significant first; r: the remainder carried in
RECURSIVE DivRem(_, _, _)
DivRem(hi, m, r) ==
    IF hi = <<>> THEN [q |-> <<>>, r |-> r]
    ELSE LET v == r * 256 + hi[1]
             rest == DivRem(Tail(hi), m, v % m)
         IN  [q |-> rest.q \o <<v \div m>>, r |-> rest.r]

Reverse(x) == [i \in 1..Len(x) |-> x[Len(x) + 1 - i]]

DivSmall(x, m) == DivRem(Reverse(x), m, 0)

\* the decimal digits of x >= 0
RECURSIVE I64Digits(_)
I64Digits(x) ==
    LET d == DivSmall(x, 10)
    IN  IF d.q = Zeros(Len(x)) THEN <<Digits[d.r + 1]>>
        ELSE I64Digits(d.q) \o <<Digits[d.r + 1]>>

\* x <= 0 and x <= y as signed integers
I64NotPositive(x) == I64IsNeg(x) \/ x = Zeros(Len(x))

RECURSIVE BytesLess(_, _)
BytesLess(hi, lo) ==
    IF hi = <<>> THEN FALSE
    ELSE IF hi[1] = lo[1] THEN BytesLess(Tail(hi), Tail(lo))
    ELSE hi[1] < lo[1]

I64Less(x, y) ==
    IF I64IsNeg(x) # I64IsNeg(y) THEN I64IsNeg(x)
    ELSE BytesLess(Reverse(x), Reverse(y))

\* x / 10^9 and x % 10^9 as Go computes them (the quotient truncated toward
\* zero, the remainder with the sign of x); the remainder as a number
I64DivBillion(x) ==
    LET neg == I64IsNeg(x)
        m == IF neg THEN I64Neg(x) ELSE x
        a == DivSmall(m, 1000)
        b == DivSmall(a.q, 1000)
        c == DivSmall(b.q, 1000)
        r == a.r + 1000 * b.r + 1000000 * c.r
    IN  [q |-> IF neg THEN I64Neg(c.q) ELSE c.q,
         r |-> IF neg THEN 0 - r ELSE r]

\* time.Second: 10^9 nanoseconds, 0x3B9ACA00
Second == <<0, 202, 154, 59, 0, 0, 0, 0>>

\* strconv.ParseInt(s, 10, 64): an optional sign, then at least one decimal
\* digit, within int64; the value as an int64
ParseInt(s) ==
    LET signed == s # <<>> /\ s[1] \in {"+", "-"}
        neg == s # <<>> /\ s[1] = "-"
        d == IF signed THEN Tail(s) ELSE s
    IN  IF d = <<>> \/ ~AllDigits(d) THEN [ok |-> FALSE, val |-> I64Zero]
        ELSE IF OutOfRange(d, neg) THEN [ok |-> FALSE, val |-> I64Zero]
        ELSE [ok |-> TRUE,
              val |-> IF neg THEN I64Neg(I64FromDigits(d)) ELSE I64FromDigits(d)]

\* json.Marshal of an int64
MarshalInt64(i) ==
    IF I64IsNeg(i) THEN <<"-">> \o I64Digits(I64Neg(i)) ELSE I64Digits(i)

\* json.Unmarshal of bytes into an int64 variable
UnmarshalInt64(b) ==
    LET neg == b # <<>> /\ b[1] = "-"
        d == IF neg THEN Tail(b) ELSE b
    IN  IF d = <<>> \/ ~AllDigits(d) THEN [ok |-> FALSE, val |-> I64Zero]
        ELSE IF Len(d) > 1 /\ d[1] = "0" THEN [ok |-> FALSE, val |-> I64Zero]
        ELSE IF OutOfRange(d, neg) THEN [ok |-> FALSE, val |-> I64Zero]
        ELSE [ok |-> TRUE,
              val |-> IF neg THEN I64Neg(I64FromDigits(d)) ELSE I64FromDigits(d)]

\* json.Marshal of a string without characters to escape: the string quoted
MarshalString(str) == <<"\"", str, "\"">>

\* json.Unmarshal of bytes into a string variable
UnmarshalString(b) ==
    IF Len(b) = 3 /\ b[1] = "\"" /\ b[3] = "\"" THEN [ok |-> TRUE, val |-> b[2]]
    ELSE [ok |-> FALSE, val |-> ""]

----------------------------------------------------------------------------
(* The key-value store of the plugin API.  A key that was never set, or was *)
(* deleted, reads as nil bytes and no error.                               *)

Nil == <<>>

KVGet(store, key) == store[key]

KVSet(store, key, b) == [store EXCEPT ![key] = b]

KVDelete(store, key) == [store EXCEPT ![key] = Nil]

\* what a handler hands back: the store it leaves, the string it returns and
\* the operation it logged with LogError ("" when it logged nothing)
Result(store, msg, logged) == [kv |-> store, msg |-> msg, logged |-> logged]

----------------------------------------------------------------------------
(* logs-limit *)

\* a read that takes a key without a value for the number 0
getLogsLimitMut(store, kvOK) ==
    IF ~kvOK THEN [ok |-> FALSE, val |-> 0]
    ELSE IF KVGet(store, logsLimitKey) = Nil THEN [ok |-> TRUE, val |-> 0]
    ELSE UnmarshalInt(KVGet(store, logsLimitKey))

\* kvOK: whether the store call of this invocation succeeds
getLogsLimit(store, kvOK) ==
    IF ~kvOK THEN [ok |-> FALSE, val |-> 0]
    ELSE UnmarshalInt(KVGet(store, logsLimitKey))

logsLimitInvalidMut(i) == i < 0
logsLimitInvalid(i) == i <= 0

logsLimitWriteKeyMut == logsStartTimeKey
logsLimitWriteKey == logsLimitKey

setLogsLimit(store, parameters, kvOK) ==
    IF Len(parameters) # 1
    THEN Result(store,
                <<"You must supply exactly one parameter (integer value).">>, "")
    ELSE LET r == Atoi(parameters[1])
         IN  IF ~r.ok THEN Result(store, settingLogsLimitUnsuccessful, "Atoi")
             ELSE IF logsLimitInvalid(r.val)
             THEN Result(store,
                    <<"Invalid argument - logs limit must be a positive integer.">>,
                    "")
             ELSE IF ~kvOK
             THEN Result(store, settingLogsLimitUnsuccessful, "KVSet")
             ELSE Result(KVSet(store, logsLimitWriteKey, MarshalInt(r.val)),
                         <<"Limit set successfully.">>, "")

----------------------------------------------------------------------------
(* logs-start-time *)

\* getLogsStartTime: the stored number of seconds, converted by
\* time.Duration(seconds) * time.Second to int64 nanoseconds
getLogsStartTime(store, kvOK) ==
    IF ~kvOK THEN [ok |-> FALSE, val |-> I64Zero]
    ELSE LET seconds == UnmarshalInt64(KVGet(store, logsStartTimeKey))
         IN  IF ~seconds.ok THEN [ok |-> FALSE, val |-> I64Zero]
             ELSE [ok |-> TRUE, val |-> I64Mul(seconds.val, Second)]

logsStartTimeInvalid(i) == I64NotPositive(i)

setLogsStartTime(store, parameters, kvOK) ==
    IF Len(parameters) # 1
    THEN Result(store,
                <<"You must supply exactly one parameter (number of seconds).">>,
                "")
    ELSE LET r == ParseInt(parameters[1])
         IN  IF ~r.ok
             THEN Result(store, settingLogsStartTimeUnsuccessful, "ParseInt")
             ELSE IF logsStartTimeInvalid(r.val)
             THEN Result(store,
                    <<"Invalid argument - start time must be a positive integer.">>,
                    "")
             ELSE IF ~kvOK
             THEN Result(store, settingLogsStartTimeUnsuccessful, "KVSet")
             ELSE Result(KVSet(store, logsStartTimeKey, MarshalInt64(r.val)),
                         <<"Start time set successfully.">>, "")

----------------------------------------------------------------------------
(* report-frequency *)

reportFrequencyInvalid(i) == i <= 0

setReportFrequency(store, parameters, kvOK) ==
    IF Len(parameters) # 1
    THEN Result(store,
                <<"You must supply exactly one parameter (number of minutes).">>,
                "")
    ELSE LET r == Atoi(parameters[1])
         IN  IF ~r.ok
             THEN Result(store, settingReportFrequencyUnsuccessful, "Atoi")
             ELSE IF reportFrequencyInvalid(r.val)
             THEN Result(store,
                    <<"Invalid argument - report frequency must be a positive integer.">>,
                    "")
             ELSE IF ~kvOK
             THEN Result(store, settingReportFrequencyUnsuccessful, "KVSet")
             ELSE Result(KVSet(store, reportFrequencyKey, MarshalInt(r.val)),
                         <<"Report frequency set successfully.">>, "")

----------------------------------------------------------------------------
(* get-log: the filter, the query window and the formatting of the reply *)

\* a filter parser that takes the value after "service" for a host name
getLogsSpecificMut(parameters) ==
    IF Len(parameters) = 0
    THEN [hostName |-> <<>>, serviceDescription |-> <<>>, message |-> <<>>,
          ok |-> TRUE]
    ELSE IF Len(parameters) >= 2
    THEN [hostName |-> parameters[2], serviceDescription |-> <<>>,
          message |-> <<>>, ok |-> TRUE]
    ELSE [hostName |-> <<>>, serviceDescription |-> <<>>,
          message |-> unknownParameterMessage(parameters[1]), ok |-> FALSE]

getLogsSpecific(parameters) ==
    IF Len(parameters) = 0
    THEN [hostName |-> <<>>, serviceDescription |-> <<>>, message |-> <<>>,
          ok |-> TRUE]
    ELSE IF parameters[1] = <<"host">>
    THEN IF Len(parameters) < 2
         THEN [hostName |-> <<>>, serviceDescription |-> <<>>,
               message |-> <<"You must supply host name.">>, ok |-> FALSE]
         ELSE [hostName |-> parameters[2], serviceDescription |-> <<>>,
               message |-> <<>>, ok |-> TRUE]
    ELSE IF parameters[1] = <<"service">>
    THEN IF Len(parameters) < 2
         THEN [hostName |-> <<>>, serviceDescription |-> <<>>,
               message |-> <<"You must supply service description.">>,
               ok |-> FALSE]
         ELSE [hostName |-> <<>>, serviceDescription |-> parameters[2],
               message |-> <<>>, ok |-> TRUE]
    ELSE [hostName |-> <<>>, serviceDescription |-> <<>>,
          message |-> unknownParameterMessage(parameters[1]), ok |-> FALSE]

\* A time.Time: seconds since the Unix epoch (an int64) and nanoseconds
\* within the second.  Time.Add(d) and Time.Unix().
TimeAdd(t, d) ==
    LET qr == I64DivBillion(d)
        nsec == t.nsec + qr.r
        one == I64FromDigits(<<"1">>)
    IN  IF nsec >= 1000000000
        THEN [sec |-> I64Add(t.sec, I64Add(qr.q, one)), nsec |-> nsec - 1000000000]
        ELSE IF nsec < 0
        THEN [sec |-> I64Add(t.sec, I64Sub(qr.q, one)), nsec |-> nsec + 1000000000]
        ELSE [sec |-> I64Add(t.sec, qr.q), nsec |-> nsec]

Unix(t) == t.sec

\* formatNagiosTimestamp(t), t >= 0: time.Unix(t/1e3, 0), left unrendered
formatNagiosTimestamp(t) == <<"time.Unix(">> \o NatToDigits(t \div 1000) \o <<")">>

formatHostName(name, alt) == IF name = "" THEN alt ELSE name

\* the state indicator of an alert
emoji(state) == <<"emoji(", state, ")">>

formatAlertListEntry(e) ==
    emoji(e.State) \o <<" [">> \o formatNagiosTimestamp(e.Timestamp)
    \o <<"] ", e.ObjectType, ": ", formatHostName(e.HostName, e.Name), " | ",
         e.Description, " | ", e.StateType, " | ", e.State, " | ",
         e.PluginOutput>>

formatNotificationListEntry(e) ==
    <<"[">> \o formatNagiosTimestamp(e.Timestamp)
    \o <<"] ", e.ObjectType, ": ", formatHostName(e.HostName, e.Name), " | ",
         e.Description, " | ", e.Contact, " | ", e.NotificationType, " | ",
         e.Method, " | ", e.Message>>

\* the loop of formatAlerts and of formatNotifications: the entries in the
\* order of the list, a '\n' before every entry but the first
RECURSIVE joinAlertsMut(_)
joinAlertsMut(list) ==
    IF list = <<>> THEN <<>>
    ELSE IF Len(list) = 1 THEN formatAlertListEntry(list[1])
    ELSE joinAlertsMut(Tail(list)) \o <<"\n">> \o formatAlertListEntry(list[1])

RECURSIVE joinAlerts(_)
joinAlerts(list) ==
    IF list = <<>> THEN <<>>
    ELSE IF Len(list) = 1 THEN formatAlertListEntry(list[1])
    ELSE joinAlerts(SubSeq(list, 1, Len(list) - 1)) \o <<"\n">>
         \o formatAlertListEntry(list[Len(list)])

RECURSIVE joinNotifications(_)
joinNotifications(list) ==
    IF list = <<>> THEN <<>>
    ELSE IF Len(list) = 1 THEN formatNotificationListEntry(list[1])
    ELSE joinNotifications(SubSeq(list, 1, Len(list) - 1)) \o <<"\n">>
         \o formatNotificationListEntry(list[Len(list)])

formatAlerts(alerts) ==
    IF alerts.TypeText # resultTypeTextSuccess
    THEN gettingLogsUnsuccessfulMessage(alerts.TypeText)
    ELSE IF Len(alerts.List) = 0 THEN <<"No alerts.">>
    ELSE joinAlerts(alerts.List)

formatNotifications(notifications) ==
    IF notifications.TypeText # resultTypeTextSuccess
    THEN gettingLogsUnsuccessfulMessage(notifications.TypeText)
    ELSE IF Len(notifications.List) = 0 THEN <<"No notifications.">>
    ELSE joinNotifications(notifications.List)

\* the locals of getLogs that a response does not show: whether
\* getLogsSpecific was called and what it returned, the request handed to
\* p.client.Query (kind "" = none), the time read and the reply received
NoSpecific == [called |-> FALSE, hostName |-> <<>>, serviceDescription |-> <<>>,
               message |-> <<>>, ok |-> FALSE]

Called(sp) == [called |-> TRUE, hostName |-> sp.hostName,
               serviceDescription |-> sp.serviceDescription,
               message |-> sp.message, ok |-> sp.ok]

NoQuery == [kind |-> "", Count |-> 0, HostName |-> <<>>,
            ServiceDescription |-> <<>>, StartTime |-> I64Zero,
            EndTime |-> I64Zero, Enumerate |-> FALSE]

NoReply == [err |-> TRUE, TypeText |-> "", List |-> <<>>]

NoTime == [sec |-> I64Zero, nsec |-> 0]

NoLookup == [specific |-> NoSpecific, q |-> NoQuery, now |-> NoTime,
             reply |-> NoReply]

\* what getLogs hands back: as Result, with its locals
LogsResult(store, msg, logged, specific, q, now, reply) ==
    [kv |-> store, msg |-> msg, logged |-> logged,
     lookup |-> [specific |-> specific, q |-> q, now |-> now, reply |-> reply]]

\* kvOK1, kvOK2: whether the two store reads succeed; now: time.Now();
\* alerts, notifications: what p.client.Query answers to either request
getLogs(store, parameters, kvOK1, kvOK2, now, alerts, notifications) ==
    IF Len(parameters) = 0
    THEN LogsResult(store,
            <<"You must supply at least one parameter (alerts|notifications).">>,
            "", NoSpecific, NoQuery, NoTime, NoReply)
    ELSE
    LET c == getLogsLimit(store, kvOK1)
        sp == getLogsSpecific(Tail(parameters))
        d == getLogsStartTime(store, kvOK2)
        then == TimeAdd(now, I64Neg(d.val))
        q(kind) == [kind |-> kind, Count |-> c.val, HostName |-> sp.hostName,
                    ServiceDescription |-> sp.serviceDescription,
                    StartTime |-> Unix(then), EndTime |-> Unix(now),
                    Enumerate |-> TRUE]
    IN  IF ~c.ok
        THEN LogsResult(store, gettingLogsUnsuccessful, "getLogsLimit",
                        NoSpecific, NoQuery, NoTime, NoReply)
        ELSE IF ~sp.ok
        THEN LogsResult(store, sp.message, "", Called(sp), NoQuery, NoTime,
                        NoReply)
        ELSE IF ~d.ok
        THEN LogsResult(store, gettingLogsUnsuccessful, "getLogsStartTime",
                        Called(sp), NoQuery, NoTime, NoReply)
        ELSE IF parameters[1] = <<"alerts">>
        THEN IF alerts.err
             THEN LogsResult(store, gettingLogsUnsuccessful, "Query",
                             Called(sp), q("alerts"), now, NoReply)
             ELSE LogsResult(store, formatAlerts(alerts), "", Called(sp),
                             q("alerts"), now, alerts)
        ELSE IF parameters[1] = <<"notifications">>
        THEN IF notifications.err
             THEN LogsResult(store, gettingLogsUnsuccessful, "Query",
                             Called(sp), q("notifications"), now, NoReply)
             ELSE LogsResult(store, formatNotifications(notifications), "",
                             Called(sp), q("notifications"), now, notifications)
        ELSE LogsResult(store, unknownParameterMessage(parameters[1]), "",
                        Called(sp), NoQuery, now, NoReply)

----------------------------------------------------------------------------
(* report-channel and changes-channel *)

reportChannelWriteKeyMut == changesChannelKey
reportChannelWriteKey == reportChannelKey

setReportChannel(store, channelID, kvOK) ==
    IF ~kvOK THEN Result(store, settingReportChannelUnsuccessful, "KVSet")
    ELSE Result(KVSet(store, reportChannelWriteKey, MarshalString(channelID)),
                <<"Subscribed to system monitoring report successfully.">>, "")

\* a key without a value reads as the empty string and no error
getChangesChannel(store, kvOK) ==
    IF ~kvOK THEN [ok |-> FALSE, val |-> ""]
    ELSE IF KVGet(store, changesChannelKey) = Nil THEN [ok |-> TRUE, val |-> ""]
    ELSE UnmarshalString(KVGet(store, changesChannelKey))

changesChannelWriteKeyMut == reportChannelKey
changesChannelWriteKey == changesChannelKey

setChangesChannel(store, channelID, kvOK) ==
    IF ~kvOK THEN Result(store, settingChangesChannelUnsuccessful, "KVSet")
    ELSE Result(KVSet(store, changesChannelWriteKey, MarshalString(channelID)),
                <<"Subscribed to configuration changes successfully.">>, "")

----------------------------------------------------------------------------
(* Inputs *)

\* the tokens given to the three integer settings: "5", "+12", "0", "-3",
\* "1x" and 2^63 (one more than the largest int64)
NumTokens == {<<"5">>, <<"+", "1", "2">>, <<"0">>, <<"-", "3">>, <<"1", "x">>,
              MinInt64Digits}

NumParameters ==
    {<<>>} \cup {<<t>> : t \in NumTokens} \cup {<< <<"5">>, <<"5">> >>}

\* the parameter lists given to subscribe and unsubscribe
SubParameters ==
    {<<>>, << <<"report">> >>, << <<"configuration-changes">> >>,
     << <<"bogus">> >>, << <<"report">>, <<"report">> >>}

\* a short list for the specifications that run the settings beside the
\* subscription
FewParameters == {<<>>, << <<"5">> >>, << <<"0">> >>, << <<"-", "3">> >>}

\* the tokens given to set-logs-start-time: those above, the largest number
\* of seconds whose nanoseconds fit int64, the next number, and 2^63 - 1
StartTimeTokens ==
    NumTokens \cup {<<"9","2","2","3","3","7","2","0","3","6">>,
                    <<"9","2","2","3","3","7","2","0","3","7">>,
                    MaxInt64Digits}

StartTimeParameters ==
    {<<>>} \cup {<<t>> : t \in StartTimeTokens} \cup {<< <<"5">>, <<"5">> >>}

\* the parameter lists given to get-log
LogParameters ==
    {<<>>, << <<"alerts">> >>, << <<"notifications">> >>, << <<"bogus">> >>,
     << <<"alerts">>, <<"host">> >>, << <<"alerts">>, <<"host">>, <<"h1">> >>,
     << <<"alerts">>, <<"service">> >>,
     << <<"notifications">>, <<"service">>, <<"s1">> >>,
     << <<"alerts">>, <<"bogus">> >>, << <<"bogus">>, <<"host">> >>,
     << <<"notifications">>, <<"host">>, <<"h1">>, <<"s1">> >>,
     << <<"bogus">>, <<"service">>, <<"s1">> >>}

FewLogParameters == {<<>>, << <<"alerts">> >>, << <<"bogus">> >>}

\* a value that is stored and one that is not a number
TwoParameters == {<< <<"5">> >>, << <<"1", "x">> >>}

\* subscribe and unsubscribe for the report only, from one channel
ReportParameters == {<< <<"report">> >>}
OneChannel == {"c1"}

\* subscribe and unsubscribe for the configuration changes only
ChangesParameters == {<< <<"configuration-changes">> >>, << <<"bogus">> >>}

\* records of the monitoring server: an alert of a host without a host name
\* and one of a service, and likewise two notifications
AlertEntries ==
    {[State |-> "OK", Timestamp |-> 1999, ObjectType |-> "HOST", HostName |-> "",
      Name |-> "web", Description |-> "", StateType |-> "HARD",
      PluginOutput |-> "PING OK"],
     [State |-> "CRITICAL", Timestamp |-> 61000, ObjectType |-> "SERVICE",
      HostName |-> "db", Name |-> "", Description |-> "disk",
      StateType |-> "SOFT", PluginOutput |-> "DISK CRITICAL"]}

NotificationEntries ==
    {[Timestamp |-> 1999, ObjectType |-> "HOST", HostName |-> "", Name |-> "web",
      Description |-> "", Contact |-> "admin", NotificationType |-> "HOST DOWN",
      Method |-> "notify-host-by-email", Message |-> "PING CRITICAL"],
     [Timestamp |-> 61000, ObjectType |-> "SERVICE", HostName |-> "db",
      Name |-> "", Description |-> "disk", Contact |-> "admin",
      NotificationType |-> "SERVICE CRITICAL",
      Method |-> "notify-service-by-email", Message |-> "DISK CRITICAL"]}

\* the longest list of records in a reply
MaxRecords == 2

ListsOf(entries) == UNION {[1..n -> entries] : n \in 0..MaxRecords}

\* the replies of p.client.Query: an error, or a result type and a list
Replies(entries) ==
    {NoReply} \cup
    {[err |-> FALSE, TypeText |-> t, List |-> l] :
        t \in {resultTypeTextSuccess, "Error"}, l \in ListsOf(entries)}

FewReplies(entries) ==
    {NoReply} \cup
    {[err |-> FALSE, TypeText |-> resultTypeTextSuccess, List |-> l] :
        l \in {<<>>} \cup {<<e>> : e \in entries}}

\* the times time.Now() returns: on a second and within one
Times ==
    {[sec |-> I64FromDigits(<<"1","7","0","0","0","0","0","0","0","0">>),
      nsec |-> n] : n \in {0, 500000000}}

\* one reply without records and one time
EmptyReplies ==
    {NoReply, [err |-> FALSE, TypeText |-> resultTypeTextSuccess, List |-> <<>>]}

OneTime == {t \in Times : t.nsec = 0}

ChannelIDs == {"c1", "c2"}

Chans == 1..MaxSubscribes

----------------------------------------------------------------------------
(* State *)

Idle == [at |-> "idle", ch |-> 0, channelID |-> ""]

NoOut == [cmd |-> "", channelID |-> "", parameters |-> <<>>, msg |-> <<>>,
          logged |-> ""]

Response(cmd, channelID, parameters, r) ==
    [cmd |-> cmd, channelID |-> channelID, parameters |-> parameters,
     msg |-> r.msg, logged |-> r.logged]

\* n: the number of command invocations that may be in flight at once
InitWith(n) ==
    /\ kv = [k \in Keys |-> Nil]
    /\ subscriptionStop = 0
    /\ made = 0
    /\ buf = [c \in Chans |-> 0]
    /\ task = [c \in Chans |-> "none"]
    /\ sent = [c \in Chans |-> 0]
    /\ inv = [s \in 1..n |-> Idle]
    /\ out = NoOut
    /\ lookup = NoLookup

Init == InitWith(1)

InitConc == InitWith(NumProcs)

Procs == DOMAIN inv

subState == <<subscriptionStop, made, buf, task, sent>>

\* a handler that runs to its return in one step
Return(s, cmd, channelID, parameters, r) ==
    /\ kv' = r.kv
    /\ out' = Response(cmd, channelID, parameters, r)
    /\ inv' = [inv EXCEPT ![s] = Idle]
    /\ lookup' = NoLookup

----------------------------------------------------------------------------
(* set-logs-limit, set-logs-start-time, set-report-frequency *)

SetLogsLimit(s, P) ==
    /\ inv[s].at = "idle"
    /\ \E parameters \in P, kvOK \in BOOLEAN :
          Return(s, "set-logs-limit", "", parameters,
                 setLogsLimit(kv, parameters, kvOK))
    /\ UNCHANGED subState

SetLogsStartTime(s, P) ==
    /\ inv[s].at = "idle"
    /\ \E parameters \in P, kvOK \in BOOLEAN :
          Return(s, "set-logs-start-time", "", parameters,
                 setLogsStartTime(kv, parameters, kvOK))
    /\ UNCHANGED subState

SetReportFrequency(s, P) ==
    /\ inv[s].at = "idle"
    /\ \E parameters \in P, kvOK \in BOOLEAN :
          Return(s, "set-report-frequency", "", parameters,
                 setReportFrequency(kv, parameters, kvOK))
    /\ UNCHANGED subState

----------------------------------------------------------------------------
(* get-log *)

\* P: the parameter lists; A, N: the replies to an alert and to a
\* notification request; T: the times read.  A reply is drawn for the
\* request the parameters name only.
GetLog(s, P, A, N, T) ==
    /\ inv[s].at = "idle"
    /\ \E parameters \in P, kvOK1, kvOK2 \in BOOLEAN, now \in T :
       \E alerts \in IF parameters # <<>> /\ parameters[1] = <<"alerts">>
                     THEN A ELSE {NoReply},
          notifications \in IF parameters # <<>>
                               /\ parameters[1] = <<"notifications">>
                            THEN N ELSE {NoReply} :
          LET r == getLogs(kv, parameters, kvOK1, kvOK2, now, alerts,
                           notifications)
          IN  /\ kv' = r.kv
              /\ out' = Response("get-log", "", parameters, r)
              /\ lookup' = r.lookup
              /\ inv' = [inv EXCEPT ![s] = Idle]
    /\ UNCHANGED subState

----------------------------------------------------------------------------
(* subscribe *)

\* `subscribe report`: make(chan bool, 1) and the go statement
SubscribeReportStart(s, channelID) ==
    /\ made < MaxSubscribes
    /\ made' = made + 1
    /\ task' = [task EXCEPT ![made + 1] = "waiting"]
    /\ inv' = [inv EXCEPT ![s] = [at |-> "sub_assign", ch |-> made + 1,
                                  channelID |-> channelID]]
    /\ out' = NoOut
    /\ lookup' = NoLookup
    /\ UNCHANGED <<kv, subscriptionStop, buf, sent>>

\* C: the channels the command comes from; P: the parameter lists
SubscribeOn(s, C, P) ==
    /\ inv[s].at = "idle"
    /\ \E channelID \in C, parameters \in P :
          IF Len(parameters) # 1
          THEN /\ Return(s, "subscribe", channelID, parameters,
                    Result(kv, <<"You must supply exactly one parameter (report|configuration-changes).">>, ""))
               /\ UNCHANGED subState
          ELSE IF parameters[1] = <<"report">>
          THEN SubscribeReportStart(s, channelID)
          ELSE IF parameters[1] = <<"configuration-changes">>
          THEN /\ \E kvOK \in BOOLEAN :
                     Return(s, "subscribe", channelID, parameters,
                            setChangesChannel(kv, channelID, kvOK))
               /\ UNCHANGED subState
          ELSE /\ Return(s, "subscribe", channelID, parameters,
                         Result(kv, unknownParameterMessage(parameters[1]), ""))
               /\ UNCHANGED subState

Subscribe(s) == SubscribeOn(s, ChannelIDs, SubParameters)

\* an assignment that first cancels the task of the handle it replaces
SubscribeAssignMut(s) ==
    /\ inv[s].at = "sub_assign"
    /\ subscriptionStop' = inv[s].ch
    /\ buf' = [c \in Chans |-> IF c = subscriptionStop THEN 1 ELSE buf[c]]
    /\ inv' = [inv EXCEPT ![s].at = "sub_set"]
    /\ UNCHANGED <<kv, made, task, sent, out, lookup>>

\* p.subscriptionStop = stop
SubscribeAssign(s) ==
    /\ inv[s].at = "sub_assign"
    /\ subscriptionStop' = inv[s].ch
    /\ inv' = [inv EXCEPT ![s].at = "sub_set"]
    /\ UNCHANGED <<kv, made, buf, task, sent, out, lookup>>

\* return setReportChannel(p.API, channelID)
SubscribeSetChannel(s) ==
    /\ inv[s].at = "sub_set"
    /\ \E kvOK \in BOOLEAN :
          Return(s, "subscribe", inv[s].channelID, << <<"report">> >>,
                 setReportChannel(kv, inv[s].channelID, kvOK))
    /\ UNCHANGED subState

----------------------------------------------------------------------------
(* unsubscribe *)

reportDeleteKeyMut == changesChannelKey
reportDeleteKey == reportChannelKey

changesDeleteKey == changesChannelKey

\* the KVDelete of either case and the return after it
unsubscribeDelete(store, key, kvOK) ==
    IF ~kvOK THEN Result(store, unsubscribingUnsuccessful, "KVDelete")
    ELSE Result(KVDelete(store, key), <<"Unsubscribed successfully.">>, "")

\* P: the parameter lists
UnsubscribeOn(s, P) ==
    /\ inv[s].at = "idle"
    /\ \E parameters \in P :
          IF Len(parameters) # 1
          THEN /\ Return(s, "unsubscribe", "", parameters,
                    Result(kv, <<"You must supply exactly one parameter (report|configuration-changes).">>, ""))
               /\ UNCHANGED subState
          ELSE IF parameters[1] = <<"report">>
          THEN \* the channel operand of the send is evaluated
               /\ inv' = [inv EXCEPT ![s] = [at |-> "unsub_send",
                                             ch |-> subscriptionStop,
                                             channelID |-> ""]]
               /\ out' = NoOut
               /\ lookup' = NoLookup
               /\ UNCHANGED <<kv, subState>>
          ELSE IF parameters[1] = <<"configuration-changes">>
          THEN /\ \E kvOK \in BOOLEAN :
                     Return(s, "unsubscribe", "", parameters,
                            unsubscribeDelete(kv, changesDeleteKey, kvOK))
               /\ UNCHANGED subState
          ELSE /\ Return(s, "unsubscribe", "", parameters,
                         Result(kv, unknownParameterMessage(parameters[1]), ""))
               /\ UNCHANGED subState

Unsubscribe(s) == UnsubscribeOn(s, SubParameters)

\* a send on a channel without a buffer: it completes only when the receiver
\* is at its select
CanSendMut(c) == c # 0 /\ buf[c] = 0 /\ task[c] = "waiting"

\* whether a send on channel c can complete: a nil channel never takes a
\* value, a channel of capacity 1 takes one while its buffer is empty
CanSend(c) == c # 0 /\ buf[c] = 0

\* p.subscriptionStop <- true
UnsubscribeSend(s) ==
    /\ inv[s].at = "unsub_send"
    /\ CanSend(inv[s].ch)
    /\ buf' = [buf EXCEPT ![inv[s].ch] = 1]
    /\ sent' = [sent EXCEPT ![inv[s].ch] = @ + 1]
    /\ inv' = [inv EXCEPT ![s].at = "unsub_delete"]
    /\ UNCHANGED <<kv, subscriptionStop, made, task, out, lookup>>

UnsubscribeDelete(s) ==
    /\ inv[s].at = "unsub_delete"
    /\ \E kvOK \in BOOLEAN :
          Return(s, "unsubscribe", "", << <<"report">> >>,
                 unsubscribeDelete(kv, reportDeleteKey, kvOK))
    /\ UNCHANGED subState

----------------------------------------------------------------------------
(* The background task started by `go p.addMonitoringReport(channelID,     *)
(* stop)`: it waits for the report ticker or the stop channel, polls and   *)
(* posts on a tick, and returns when it receives from the stop channel.    *)

TaskTick(c) ==
    /\ task[c] = "waiting"
    /\ task' = [task EXCEPT ![c] = "polling"]
    /\ UNCHANGED <<kv, subscriptionStop, made, buf, sent, inv, out, lookup>>

TaskPoll(c) ==
    /\ task[c] = "polling"
    /\ task' = [task EXCEPT ![c] = "waiting"]
    /\ UNCHANGED <<kv, subscriptionStop, made, buf, sent, inv, out, lookup>>

TaskStop(c) ==
    /\ task[c] = "waiting"
    /\ buf[c] = 1
    /\ buf' = [buf EXCEPT ![c] = 0]
    /\ task' = [task EXCEPT ![c] = "stopped"]
    /\ UNCHANGED <<kv, subscriptionStop, made, sent, inv, out, lookup>>

----------------------------------------------------------------------------
(* Specifications *)

NextSub ==
    \/ \E s \in Procs : Subscribe(s)
    \/ \E s \in Procs : SubscribeAssign(s)
    \/ \E s \in Procs : SubscribeSetChannel(s)
    \/ \E s \in Procs : Unsubscribe(s)
    \/ \E s \in Procs : UnsubscribeSend(s)
    \/ \E s \in Procs : UnsubscribeDelete(s)
    \/ \E c \in Chans : TaskTick(c)
    \/ \E c \in Chans : TaskPoll(c)
    \/ \E c \in Chans : TaskStop(c)

NextStore ==
    \/ \E s \in Procs : SetLogsLimit(s, NumParameters)
    \/ \E s \in Procs : SetLogsStartTime(s, NumParameters)
    \/ \E s \in Procs : SetReportFrequency(s, NumParameters)

NextLog ==
    \/ \E s \in Procs : SetLogsLimit(s, NumParameters)
    \/ \E s \in Procs : SetLogsStartTime(s, StartTimeParameters)
    \/ \E s \in Procs :
          GetLog(s, LogParameters, FewReplies(AlertEntries),
                 FewReplies(NotificationEntries), Times)

NextAbsent ==
    \/ \E s \in Procs : SetLogsLimit(s, FewParameters)
    \/ \E s \in Procs : SetLogsStartTime(s, FewParameters)
    \/ \E s \in Procs : SubscribeOn(s, ChannelIDs, ChangesParameters)
    \/ \E s \in Procs : UnsubscribeOn(s, ChangesParameters)
    \/ \E s \in Procs :
          GetLog(s, LogParameters, FewReplies(AlertEntries),
                 FewReplies(NotificationEntries), Times)

NextFrame ==
    \/ \E s \in Procs : SetLogsLimit(s, TwoParameters)
    \/ \E s \in Procs : SetLogsStartTime(s, TwoParameters)
    \/ \E s \in Procs : SetReportFrequency(s, TwoParameters)
    \/ \E s \in Procs :
          GetLog(s, FewLogParameters, EmptyReplies, EmptyReplies, OneTime)
    \/ \E s \in Procs : SubscribeOn(s, OneChannel, ReportParameters)
    \/ \E s \in Procs : SubscribeAssign(s)
    \/ \E s \in Procs : SubscribeSetChannel(s)
    \/ \E s \in Procs : UnsubscribeOn(s, ReportParameters)
    \/ \E s \in Procs : UnsubscribeSend(s)
    \/ \E s \in Procs : UnsubscribeDelete(s)
    \/ \E c \in Chans : TaskTick(c)
    \/ \E c \in Chans : TaskPoll(c)
    \/ \E c \in Chans : TaskStop(c)

NextFormat ==
    \/ \E s \in Procs : SetLogsLimit(s, FewParameters)
    \/ \E s \in Procs : SetLogsStartTime(s, FewParameters)
    \/ \E s \in Procs :
          GetLog(s, {<< <<"alerts">> >>, << <<"notifications">> >>},
                 Replies(AlertEntries), Replies(NotificationEntries), Times)

Next ==
    \/ \E s \in Procs : SetLogsLimit(s, FewParameters)
    \/ \E s \in Procs : SetLogsStartTime(s, FewParameters)
    \/ \E s \in Procs : SetReportFrequency(s, FewParameters)
    \/ NextSub

\* the three integer settings, subscribe and unsubscribe, one command at a
\* time, the background tasks running beside it
Spec == Init /\ [][Next]_vars

\* the three integer settings on the full range of parameters
SpecStore == Init /\ [][NextStore]_vars

\* get-log on the full range of its parameters, beside the two settings it
\* reads
SpecLog == Init /\ [][NextLog]_vars

\* the settings that are read back, written and deleted, and get-log
SpecAbsent == Init /\ [][NextAbsent]_vars

\* the three integer settings and get-log beside the report subscription
SpecFrame == Init /\ [][NextFrame]_vars

\* get-log on the full range of replies of the monitoring server
SpecFormat == Init /\ [][NextFormat]_vars

\* subscribe, unsubscribe and the background tasks beside one integer setting
SpecFew ==
    Init /\ [][NextSub \/ \E s \in Procs : SetLogsLimit(s, FewParameters)]_vars

\* subscribe and unsubscribe invoked concurrently
SpecConc == InitConc /\ [][NextSub]_vars

\* subscribe and unsubscribe one at a time, with the scheduling of the
\* goroutines: a handler that can take its next step takes it, a poll ends,
\* and a select that finds the stop channel ready again and again receives
\* from it in the end
FairSub ==
    /\ Init
    /\ [][NextSub]_vars
    /\ \A s \in 1..1 : WF_vars(SubscribeAssign(s)) /\ WF_vars(SubscribeSetChannel(s))
                       /\ WF_vars(UnsubscribeSend(s)) /\ WF_vars(UnsubscribeDelete(s))
    /\ \A c \in Chans : WF_vars(TaskPoll(c)) /\ SF_vars(TaskStop(c))

\* subscribe and unsubscribe one at a time, where a handler that can take
\* its next step takes it and nothing is assumed of the tasks: a poll may
\* never end
FairCmd ==
    /\ Init
    /\ [][NextSub]_vars
    /\ \A s \in 1..1 : WF_vars(SubscribeAssign(s)) /\ WF_vars(SubscribeSetChannel(s))
                       /\ WF_vars(UnsubscribeSend(s)) /\ WF_vars(UnsubscribeDelete(s))

----------------------------------------------------------------------------
(* Vocabulary of the properties *)

Running(c) == task[c] \in {"waiting", "polling"}

reportParameters == << <<"report">> >>
changesParameters == << <<"configuration-changes">> >>

subscribedMessage == <<"Subscribed to system monitoring report successfully.">>
unsubscribedMessage == <<"Unsubscribed successfully.">>
limitSetMessage == <<"Limit set successfully.">>

\* the last response is that of `subscribe report` / `unsubscribe report`
SubscribeReportReturned == out.cmd = "subscribe" /\ out.parameters = reportParameters
UnsubscribeReportReturned ==
    out.cmd = "unsubscribe" /\ out.parameters = reportParameters

\* token t writes an integer in decimal: an optional sign, then digits
IsNumeral(t) ==
    LET d == IF t # <<>> /\ t[1] \in {"+", "-"} THEN Tail(t) ELSE t
    IN  d # <<>> /\ \A i \in 1..Len(d) : d[i] \in {"0","1","2","3","4","5","6","7","8","9"}

NumeralDigits(t) == IF t[1] \in {"+", "-"} THEN Tail(t) ELSE t

IsZeroNumeral(t) == \A i \in 1..Len(NumeralDigits(t)) : NumeralDigits(t)[i] = "0"

\* t writes an integer > 0
IsPositiveNumeral(t) == IsNumeral(t) /\ t[1] # "-" /\ ~IsZeroNumeral(t)

\* the digits of the positive integer t writes, without sign or leading zeros
RECURSIVE Canonical(_)
Canonical(d) == IF Len(d) > 1 /\ d[1] = "0" THEN Canonical(Tail(d)) ELSE d

\* bytes b are the JSON encoding of an integer > 0
EncodesPositive(b) ==
    /\ b # <<>>
    /\ \A i \in 1..Len(b) : b[i] \in {"0","1","2","3","4","5","6","7","8","9"}
    /\ b[1] # "0"

----------------------------------------------------------------------------
(* C1 *)

\* C1: at every reachable state at most one report polling task is live.
\* Stated as claimed; a second `subscribe report` starts a second task while
\* the first still runs.
C1_AtMostOneTask == Cardinality({c \in Chans : Running(c)}) <= 1

(* C2 *)

\* C2: no invocation of `unsubscribe report` is stuck at its send for ever:
\* the channel it sends on exists, and is not a full channel whose task has
\* already returned.  Stated as claimed; the send on the nil channel of a
\* plugin that never subscribed never completes.
C2_UnsubscribeNeverBlocks ==
    \A s \in Procs :
        inv[s].at = "unsub_send" =>
            /\ inv[s].ch # 0
            /\ ~(buf[inv[s].ch] = 1 /\ task[inv[s].ch] = "stopped")

(* C3 *)

C4_ChannelAfterSubscribe ==
    SubscribeReportReturned =>
        kv[reportChannelKey] = <<"\"", out.channelID, "\"">>

\* C4, amended: once `subscribe report` invoked from channel c has returned
\* "Subscribed to system monitoring report successfully.", the report-channel
\* setting holds c.
C4_ChannelAfterSuccessfulSubscribe ==
    (SubscribeReportReturned /\ out.msg = subscribedMessage) =>
        kv[reportChannelKey] = <<"\"", out.channelID, "\"">>

C4_Witness ==
    /\ SubscribeReportReturned
    /\ out.msg = subscribedMessage
    /\ out.channelID = "c2"
    /\ made = 2
    /\ kv[changesChannelKey] = <<"\"", "c1", "\"">>

(* C5 *)

\* C5: no stop channel receives a second send, and once `unsubscribe
\* report` has returned the subscription reference is nil.  Stated as
\* claimed; the handler never clears p.subscriptionStop.
C5_CancelSentOnce ==
    /\ \A c \in Chans : sent[c] <= 1
    /\ UnsubscribeReportReturned => subscriptionStop = 0

(* C6 *)

\* C6: with `subscribe report` and `unsubscribe report` in flight together,
\* no invocation is about to send on a channel that is no longer the
\* handle, and every running task has a cancel that is reachable: its
\* channel is the handle, is about to be made the handle, or already holds
\* or is about to be sent a cancel.  Stated as claimed; nothing serializes
\* the handlers.
C6_HandleSerialized ==
    /\ \A s \in Procs :
          inv[s].at = "unsub_send" => inv[s].ch = subscriptionStop
    /\ \A c \in Chans :
          Running(c) =>
              \/ subscriptionStop = c
              \/ buf[c] = 1
              \/ \E s \in Procs :
                    inv[s].at \in {"sub_assign", "unsub_send"} /\ inv[s].ch = c

(* C7 *)

\* C7: each of the logs-limit, logs-start-time and report-frequency keys is
\* absent or holds the encoding of an integer > 0.
C7_StoredValuesValid ==
    \A k \in {logsLimitKey, logsStartTimeKey, reportFrequencyKey} :
        kv[k] = Nil \/ EncodesPositive(kv[k])

C7_Witness ==
    /\ kv[logsLimitKey] # Nil
    /\ kv[logsStartTimeKey] # Nil
    /\ kv[reportFrequencyKey] # Nil
    /\ out.cmd = "set-logs-limit"
    /\ out.parameters = << <<"0">> >>

(* C8 *)

\* the last response is that of `set-logs-limit t` for one token t
SetLogsLimitReturned == out.cmd = "set-logs-limit" /\ Len(out.parameters) = 1

\* reading the logs-limit setting yields the integer that token t writes
ReadYields(t) ==
    LET r == getLogsLimit(kv, TRUE)
    IN  r.ok /\ r.val > 0 /\ NatToDigits(r.val) = Canonical(NumeralDigits(t))

\* C8, as claimed: after `set-logs-limit n` for a positive integer n,
\* reading the logs-limit setting yields n.  It does not when the KVSet
\* failed, nor for n = 2^63, which Atoi rejects.
C8_ReadAfterSet ==
    (SetLogsLimitReturned /\ IsPositiveNumeral(out.parameters[1]))
        => ReadYields(out.parameters[1])

\* C8, amended: `set-logs-limit n` returns "Limit set successfully." only
\* for a positive integer n, and after it has, reading the logs-limit
\* setting (the KVGet succeeding) yields n.
C8_ReadAfterSuccessfulSet ==
    (SetLogsLimitReturned /\ out.msg = limitSetMessage)
        => /\ IsPositiveNumeral(out.parameters[1])
           /\ ReadYields(out.parameters[1])

C8_Witness ==
    /\ SetLogsLimitReturned
    /\ out.msg = limitSetMessage
    /\ out.parameters[1] = <<"+", "1", "2">>
    /\ getLogsLimit(kv, TRUE) = [ok |-> TRUE, val |-> 12]

(* C9 *)

\* the step is a return of set-logs-limit
SetLogsLimitStep ==
    /\ out'.cmd = "set-logs-limit"
    /\ \E s \in Procs : SetLogsLimit(s, NumParameters)

\* the parameters are what the claim lists: a wrong number of them, a token
\* that is no integer, or an integer <= 0
BadLimitParameters(ps) ==
    \/ Len(ps) # 1
    \/ ~IsNumeral(ps[1])
    \/ ~IsPositiveNumeral(ps[1])

\* C9: a set-logs-limit given a wrong number of parameters, a non-numeric
\* token or n <= 0, or that logged a failure (of Atoi or of the store
\* write), leaves every key of the store as it was and returns one of the
\* handler's fixed error strings.
C9_FailedSetKeepsValue ==
    [][(SetLogsLimitStep /\ (BadLimitParameters(out'.parameters)
                             \/ out'.logged # ""))
          => /\ kv' = kv
             /\ out'.msg \in
                  {<<"You must supply exactly one parameter (integer value).">>,
                   <<"Invalid argument - logs limit must be a positive integer.">>,
                   <<"Setting logs limit unsuccessful.">>}]_vars

C9_Witness ==
    /\ out.cmd = "set-logs-limit"
    /\ out.parameters = << <<"+", "1", "2">> >>
    /\ out.logged = "KVSet"
    /\ kv[logsLimitKey] = <<"5">>

(* C10 *)

\* the step is a return of subscribe / unsubscribe configuration-changes
SubscribeChangesStep ==
    /\ out'.cmd = "subscribe"
    /\ out'.parameters = changesParameters
    /\ \E s \in Procs : Subscribe(s)
UnsubscribeChangesStep ==
    /\ out'.cmd = "unsubscribe"
    /\ out'.parameters = changesParameters
    /\ \E s \in Procs : Unsubscribe(s)

\* C10: subscribe and unsubscribe configuration-changes leave the
\* subscription handle, the stop channels, the background tasks and every
\* key but changes-channel as they were; subscribe leaves changes-channel
\* holding the invoking channel or as it was, unsubscribe leaves it absent or
\* as it was.
C10_ChangesOnlyChangesChannel ==
    [][/\ (SubscribeChangesStep \/ UnsubscribeChangesStep)
          => /\ \A k \in Keys \ {changesChannelKey} : kv'[k] = kv[k]
             /\ subscriptionStop' = subscriptionStop
             /\ made' = made /\ task' = task /\ buf' = buf /\ sent' = sent
       /\ SubscribeChangesStep
          => kv'[changesChannelKey] \in
                {kv[changesChannelKey], <<"\"", out'.channelID, "\"">>}
       /\ UnsubscribeChangesStep
          => kv'[changesChannelKey] \in {kv[changesChannelKey], Nil}]_vars

C10_Witness ==
    /\ out.cmd = "unsubscribe"
    /\ out.parameters = changesParameters
    /\ out.msg = unsubscribedMessage
    /\ kv[changesChannelKey] = Nil
    /\ kv[reportChannelKey] # Nil
    /\ kv[logsLimitKey] # Nil
    /\ subscriptionStop = 1
    /\ Running(1)

(* C11 *)

alertsParameter == <<"alerts">>
notificationsParameter == <<"notifications">>

\* the parameters are bad or missing: the wrong number of them or a token
\* that is not a numeral for the two settings; none, an unknown first or
\* second keyword, or a filter keyword without its value for get-log
BadParameters(cmd, ps) ==
    IF cmd \in {"set-logs-limit", "set-logs-start-time"}
    THEN Len(ps) # 1 \/ ~IsNumeral(ps[1])
    ELSE /\ cmd = "get-log"
         /\ \/ Len(ps) = 0
            \/ ps[1] \notin {alertsParameter, notificationsParameter}
            \/ Len(ps) >= 2 /\ ps[2] \notin {<<"host">>, <<"service">>}
            \/ Len(ps) = 2

\* the messages that tell the user what is wrong with the parameters
IsParameterMessage(msg, ps) ==
    \/ msg \in {<<"You must supply exactly one parameter (integer value).">>,
                <<"You must supply exactly one parameter (number of seconds).">>,
                <<"You must supply at least one parameter (alerts|notifications).">>,
                <<"You must supply host name.">>,
                <<"You must supply service description.">>}
    \/ \E i \in 1..Len(ps) : msg = unknownParameterMessage(ps[i])

\* C11: a command given bad or missing parameters (wrong arity, a
\* non-numeric value, a missing host name or service description, an unknown
\* keyword) answers with the message about the parameters and logs no
\* failure, whatever the store holds.  Stated as claimed; a non-numeric value
\* is logged as a failure of Atoi or ParseInt, and get-log reads the store
\* before it looks at the parameters.
C11_BadParametersNotLogged ==
    BadParameters(out.cmd, out.parameters) =>
        out.logged = "" /\ IsParameterMessage(out.msg, out.parameters)

(* C12 *)

\* what the filter parser is to return for the remaining parameters rest
SpecificAsClaimed(sp, rest) ==
    IF rest = <<>>
    THEN sp.ok /\ sp.hostName = <<>> /\ sp.serviceDescription = <<>>
    ELSE IF rest[1] = <<"host">>
    THEN IF Len(rest) >= 2
         THEN sp.ok /\ sp.hostName = rest[2] /\ sp.serviceDescription = <<>>
         ELSE ~sp.ok /\ sp.message = <<"You must supply host name.">>
    ELSE IF rest[1] = <<"service">>
    THEN IF Len(rest) >= 2
         THEN sp.ok /\ sp.serviceDescription = rest[2] /\ sp.hostName = <<>>
         ELSE ~sp.ok /\ sp.message = <<"You must supply service description.">>
    ELSE ~sp.ok /\ sp.message = <<"Unknown parameter (">> \o rest[1] \o <<").">>

\* C12: for every list of remaining get-log parameters the filter parser
\* returns no filter for the empty list, the second token as host filter
\* after "host" and as service filter after "service", the message about the
\* missing host name or service description when there is no second token,
\* and "Unknown parameter (p)." for any other first token p; a successful
\* result sets at most one of the two filters.  get-log calls the parser as
\* soon as it has read the limit, answers with its message when it fails and
\* puts its filters in the request otherwise.
C12_FilterParser ==
    out.cmd = "get-log" /\ Len(out.parameters) >= 1 =>
        LET sp == lookup.specific
        IN  /\ out.logged # "getLogsLimit" => sp.called
            /\ sp.called =>
                 /\ SpecificAsClaimed(sp, Tail(out.parameters))
                 /\ sp.ok => sp.hostName = <<>> \/ sp.serviceDescription = <<>>
                 /\ ~sp.ok => out.msg = sp.message /\ lookup.q = NoQuery
                 /\ lookup.q.kind # "" =>
                      /\ lookup.q.HostName = sp.hostName
                      /\ lookup.q.ServiceDescription = sp.serviceDescription

\* a request with a host filter, made with a token after the host name
C12_Witness ==
    /\ out.cmd = "get-log" /\ Len(out.parameters) = 4
    /\ lookup.q.kind = "notifications"
    /\ lookup.q.HostName = <<"h1">> /\ lookup.q.ServiceDescription = <<>>

(* C13 *)

\* the lines of a message: its pieces between the '\n' pieces
RECURSIVE Lines(_)
Lines(m) ==
    IF \A i \in 1..Len(m) : m[i] # "\n" THEN <<m>>
    ELSE LET i == CHOOSE j \in 1..Len(m) :
                     m[j] = "\n" /\ \A k \in 1..(j - 1) : m[k] # "\n"
         IN  <<SubSeq(m, 1, i - 1)>> \o Lines(SubSeq(m, i + 1, Len(m)))

\* the line of record e in a reply of the given kind
LineOf(kind, e) ==
    IF kind = "alerts" THEN formatAlertListEntry(e)
    ELSE formatNotificationListEntry(e)

\* C13: formatting a reply whose status X is not "Success" gives exactly
\* "Getting logs unsuccessful: X" whatever its list of records holds; for
\* the status "Success" an empty list gives "No alerts." or
\* "No notifications." and a non-empty one gives one line per record, in
\* the order of the list.
C13_Format ==
    out.cmd = "get-log" /\ lookup.q.kind # "" /\ ~lookup.reply.err =>
        LET r == lookup.reply
            kind == lookup.q.kind
        IN  IF r.TypeText # "Success"
            THEN out.msg = <<"Getting logs unsuccessful", ": ", r.TypeText>>
            ELSE IF r.List = <<>>
            THEN out.msg = IF kind = "alerts" THEN <<"No alerts.">>
                           ELSE <<"No notifications.">>
            ELSE /\ Len(Lines(out.msg)) = Len(r.List)
                 /\ \A i \in 1..Len(r.List) :
                       Lines(out.msg)[i] = LineOf(kind, r.List[i])

\* two different alerts formatted
C13_Witness ==
    /\ out.cmd = "get-log" /\ lookup.q.kind = "alerts" /\ ~lookup.reply.err
    /\ lookup.reply.TypeText = "Success"
    /\ Len(lookup.reply.List) = 2
    /\ lookup.reply.List[1] # lookup.reply.List[2]
    /\ Len(Lines(out.msg)) = 2

(* C14 *)

\* task c runs and nothing can cancel it any more: its channel is not the
\* handle, holds no cancel, and no invocation in flight holds it
Orphaned(c) ==
    /\ Running(c)
    /\ subscriptionStop # c
    /\ buf[c] = 0
    /\ \A s \in Procs : inv[s].ch # c

\* C14: when `subscribe report` assigns the handle while a subscription is
\* active (the handle's task runs and was sent no cancel), the handle becomes
\* the new channel and the earlier task is not cancelled; from then on that
\* task keeps running and no step of any later subscribe or unsubscribe
\* delivers a cancel to it.
C14_ReplacedTaskLeaks ==
    [][/\ \A c \in Chans : Orphaned(c) => Orphaned(c)'
       /\ \A s \in Procs, h \in Chans :
             /\ inv[s].at = "sub_assign" /\ inv'[s].at = "sub_set"
             /\ h = subscriptionStop /\ Running(h) /\ sent[h] = 0
             => subscriptionStop' = inv[s].ch /\ Orphaned(h)']_vars

\* the first task still runs after a later unsubscribe has cancelled the
\* second and returned
C14_Witness ==
    /\ Orphaned(1)
    /\ sent[2] = 1 /\ task[2] = "stopped"
    /\ UnsubscribeReportReturned /\ out.msg = unsubscribedMessage

(* C15 *)

\* the settings the store holds, as get-log reads them
StoredLimit == UnmarshalInt(KVGet(kv, logsLimitKey))
StoredSeconds == UnmarshalInt64(KVGet(kv, logsStartTimeKey))

\* the last command was get-log and it handed a request to the client
QueryIssued == out.cmd = "get-log" /\ lookup.q.kind # ""

\* C15: every request get-log issues carries the logs-limit stored at that
\* time as its count, the time read as its window end, and the window end
\* less the stored number of lookback seconds as its window start.  Stated as
\* claimed; for a stored number of seconds above 9223372036 the duration
\* wraps (C16) and the window start is not the end less the seconds.
C15_QueryFromSettings ==
    QueryIssued =>
        /\ StoredLimit.ok /\ lookup.q.Count = StoredLimit.val
        /\ lookup.q.EndTime = lookup.now.sec
        /\ StoredSeconds.ok
        /\ lookup.q.StartTime = I64Sub(lookup.q.EndTime, StoredSeconds.val)

(* C16 *)

\* an int64 >= 0 in twice the width
Widen(x) == x \o Zeros(Len(x))

\* C16: for every number of seconds s that set-logs-start-time stored, the
\* duration getLogsStartTime reads back is positive and is exactly s * 10^9
\* nanoseconds, and no request has its window start after its window end.
\* Stated as claimed; s * 10^9 is computed in int64 and wraps for
\* s > 9223372036.
C16_DurationDoesNotWrap ==
    /\ StoredSeconds.ok =>
          LET d == getLogsStartTime(kv, TRUE)
          IN  /\ d.ok
              /\ ~I64NotPositive(d.val)
              /\ Widen(d.val) = I64Mul(Widen(StoredSeconds.val), Widen(Second))
    /\ QueryIssued => ~I64Less(lookup.q.EndTime, lookup.q.StartTime)

(* C17 *)

\* C17: a setting whose key holds no value (never written, or deleted) reads
\* as an outcome no stored value reads as: logs-limit and logs-start-time
\* read as an error when absent and as a value when stored; changes-channel
\* reads as the empty string when absent and as the stored, non-empty channel
\* otherwise.  get-log on a store without logs-limit or without
\* logs-start-time issues no request: it fails at the read of the absent
\* setting once it gets there.
C17_AbsentIsDistinct ==
    /\ getLogsLimit(kv, TRUE).ok <=> KVGet(kv, logsLimitKey) # Nil
    /\ getLogsStartTime(kv, TRUE).ok <=> KVGet(kv, logsStartTimeKey) # Nil
    /\ LET c == getChangesChannel(kv, TRUE)
       IN  /\ c.ok
           /\ c.val = "" <=> KVGet(kv, changesChannelKey) = Nil
           /\ c.val # "" => MarshalString(c.val) = KVGet(kv, changesChannelKey)
    /\ out.cmd = "get-log" =>
          /\ KVGet(kv, logsLimitKey) = Nil \/ KVGet(kv, logsStartTimeKey) = Nil
             => lookup.q = NoQuery
          /\ KVGet(kv, logsLimitKey) = Nil /\ Len(out.parameters) >= 1
             => out.logged = "getLogsLimit" /\ out.msg = gettingLogsUnsuccessful
          /\ KVGet(kv, logsStartTimeKey) = Nil /\ lookup.specific.called
             /\ lookup.specific.ok
             => out.logged = "getLogsStartTime"
                /\ out.msg = gettingLogsUnsuccessful

\* get-log has failed at the read of logs-start-time, which was never
\* written, with logs-limit stored
C17_Witness ==
    /\ out.cmd = "get-log" /\ out.logged = "getLogsStartTime"
    /\ KVGet(kv, logsLimitKey) # Nil
    /\ KVGet(kv, logsStartTimeKey) = Nil
    /\ KVGet(kv, changesChannelKey) = Nil

(* C18 *)

\* invocation s has changed the subscription: its `subscribe report` has
\* started a task that runs or has made its channel the handle, or its
\* `unsubscribe report` has completed its send
ChangedSubscription(s) ==
    \/ /\ inv[s].at = "sub_set"
       /\ Running(inv[s].ch) \/ subscriptionStop = inv[s].ch
    \/ inv[s].at = "unsub_delete"

\* C18: a `subscribe report` or `unsubscribe report` that returns its failure
\* message has not changed the subscription: it started no task, sent no
\* cancel and left the handle as it was.  Stated as claimed; both handlers
\* change the subscription before the store call that can fail.
C18_FailureLeavesSubscription ==
    [][\A s \in Procs :
          /\ inv[s].at # "idle" /\ inv'[s].at = "idle"
          /\ out'.msg \in {settingReportChannelUnsuccessful,
                           unsubscribingUnsuccessful}
          => ~ChangedSubscription(s)]_vars

(* C19 *)

\* invocation s is at the send of the first `unsubscribe report` after a
\* `subscribe report`: the handle it read is a channel no cancel was sent on
FirstUnsubscribeAtSend(s) ==
    inv[s].at = "unsub_send" /\ inv[s].ch # 0 /\ sent[inv[s].ch] = 0

\* C19: the send of the first `unsubscribe report` after a `subscribe report`
\* can complete at once, whatever the task is doing (the channel has room for
\* one value), and the command returns even if the task never comes back
\* from its poll.
C19_FirstUnsubscribeReturns ==
    /\ [](\A s \in Procs : FirstUnsubscribeAtSend(s) => CanSend(inv[s].ch))
    /\ \A s \in 1..1 :
          FirstUnsubscribeAtSend(s) ~> (inv[s].at = "idle" /\ UnsubscribeReportReturned)

\* the send has completed and the cancel sits in the channel while the task
\* is in the middle of a poll
C19_Witness ==
    \E s \in Procs :
        /\ inv[s].at = "unsub_delete"
        /\ sent[inv[s].ch] = 1 /\ buf[inv[s].ch] = 1
        /\ task[inv[s].ch] = "polling"

(* C20 *)

FrameCommands ==
    {"set-logs-limit", "set-logs-start-time", "set-report-frequency", "get-log"}

\* the key a command may write; get-log may write none
OwnKey(cmd) ==
    IF cmd = "set-logs-limit" THEN logsLimitKey
    ELSE IF cmd = "set-logs-start-time" THEN logsStartTimeKey
    ELSE IF cmd = "set-report-frequency" THEN reportFrequencyKey
    ELSE ""

\* the step is the return of command cmd: the response becomes one of cmd
CommandReturns(cmd) == out'.cmd = cmd /\ (out' # out \/ lookup' # lookup)

\* C20: set-logs-limit, set-logs-start-time and set-report-frequency change
\* no key but their own, get-log changes no key, and none of the four changes
\* the subscription handle, makes a channel, starts a task or sends or takes
\* a cancel, whether it succeeds or fails.
C20_SettingsFrame ==
    [][\A cmd \in FrameCommands :
          CommandReturns(cmd) =>
              /\ subState' = subState
              /\ \A k \in Keys : k # OwnKey(cmd) => kv'[k] = kv[k]]_vars

\* set-logs-start-time has stored its value while the first task runs
C20_Witness ==
    /\ out.cmd = "set-logs-start-time"
    /\ out.msg = <<"Start time set successfully.">>
    /\ KVGet(kv, logsStartTimeKey) = <<"5">>
    /\ subscriptionStop = 1 /\ task[1] = "polling"


====
